---------------------------- MODULE Spec2Model ----------------------------
(***************************************************************************)
(* Plugin and external-process orchestration of druid-garden-os:           *)
(*   - PluginManager (src/src/plugins/mod.rs) behind the web handlers of   *)
(*     src/src/web/plugins.rs, which serialise on one tokio RwLock;        *)
(*   - FarmerManager::update_farmer (src/src/plugins/farmer.rs);           *)
(*   - PluginManager::plugin_updates over semver version strings.          *)
(***************************************************************************)
EXTENDS Integers, Sequences, FiniteSets, TLC

(***************************************************************************)
(* Bounds of the model.                                                    *)
(***************************************************************************)
\* concurrent web requests against the plugin manager
NumReq == 2
\* the history counter of created backend resources saturates here
MaxCreated == 2

R == 1..NumReq

(***************************************************************************)
(* Names.  The registry keys and the runtime keys of the built-ins are the *)
(* string literals of PluginManager::new.                                  *)
(***************************************************************************)
BuiltInKeys == {"file_manager", "disk_manager", "system_monitor", "farmer_manager"}
BuiltInRuntimeKeys == {"file_manager", "Disk Manager", "system_monitor", "farmer_manager"}
UserNames == {"a"}
\* a second plugin of the user, for the requests that concern another name
OtherNames == {"b"}
Names == BuiltInKeys \cup BuiltInRuntimeKeys \cup UserNames \cup OtherNames

PluginTypes == {"BuiltIn", "Docker", "File", "RustProject", "Invalid"}

\* version strings are tuples of characters
V100 == <<"1", ".", "0", ".", "0">>
\* version() of the crate itself, the version of every built-in
SelfVersion == <<"0", ".", "1", ".", "0">>

NoRow == [name |-> "-", ptype |-> "-", version |-> <<>>, enabled |-> 0]
NoRt == [kind |-> "-", run |-> FALSE, task |-> "-"]

MkPlugin(n, t, v, e) == [name |-> n, ptype |-> t, version |-> v, enabled |-> e]

\* the AddPlugin bodies the web layer may receive
InputVersions == {V100}
\* the built-in names a request body may carry as well
BuiltInInputNames == {"file_manager", "disk_manager"}
AddInputs ==
    {MkPlugin(n, t, v, 1) : n \in UserNames, t \in PluginTypes, v \in InputVersions}
    \cup {MkPlugin(k, "BuiltIn", SelfVersion, 1) : k \in BuiltInInputNames}

\* the Plugin literals PluginManager::new inserts
BuiltInName(k) == IF k = "farmer_manager" THEN "Fast Farmer" ELSE k
BuiltInDef(k) == MkPlugin(BuiltInName(k), "BuiltIn", SelfVersion, 1)

\* io::Result values of the handlers
Res(tag) == [tag |-> tag, running |-> FALSE, should |-> FALSE]
StatusRes(running, should) == [tag |-> "status", running |-> running, should |-> should]
NoRes == Res("-")

VARIABLES
    db,               \* table plugins: name -> row
    plugins,          \* PluginManager.plugins
    plugin_runtimes,  \* PluginManager.plugin_runtimes
    containers,       \* the docker daemon: container name -> state
    files,            \* bin_folder/<name>: "nodir", "dir", "partial", "exe"
    procs,            \* live supervising tasks (and their child process) per name
    lock,             \* the RwLock<PluginManager>
    req,              \* the requests in flight
    created,          \* history: backend resources created per name since the last stop
    lastStart,        \* history: type of the last successful start since the last stop
    available_plugins,\* PluginManager.available_plugins: name -> catalog version
    updatesOut,       \* the value the last plugin_updates call returned
    live,             \* the file at BIN_PATH
    backup,           \* the file at BACKUP_PATH
    tmp,              \* the file at TMP_PATH
    manifest,         \* the manifest the build server serves
    channel,          \* the config value of farmer_update_channel
    arch,             \* env::consts::ARCH of the host
    install_mutex,    \* FarmerManager.install_mutex: 0 or the holder
    upd,              \* the update_farmer calls in flight
    relay,            \* the farmer_log_stream call
    client_socket,    \* the websocket of the browser
    upstream_socket,  \* the websocket to the farmer's log endpoint
    terminated,       \* await_termination() has resolved
    instance,         \* FarmerManager.instance: 0 (None) or the child it holds
    children,         \* the farmer processes spawned so far
    config_file,      \* /tmp/fast_farmer_config.yaml exists
    instLock,         \* the RwLock around instance: 0 or the call that holds it
    run               \* the start_farmer, stop_farmer, farmer_status calls in flight

pmVars == <<db, plugins, plugin_runtimes, containers, files, procs, lock, req,
            created, lastStart>>

\* what one step of a request leaves alone unless it says otherwise
hist == <<created, lastStart>>

catVars == <<available_plugins, updatesOut>>

farmVars == <<live, backup, tmp, manifest, channel, arch, install_mutex, upd>>

relayVars == <<relay, client_socket, upstream_socket, terminated>>

\* what a step of one component leaves alone in the others
runVars == <<instance, children, config_file, instLock, run>>

nonPm == <<catVars, farmVars, relayVars, runVars>>
notCat == <<pmVars, farmVars, relayVars, runVars>>
notFarm == <<pmVars, catVars, relayVars, runVars>>
notRelay == <<pmVars, catVars, farmVars, runVars>>
notRun == <<pmVars, catVars, farmVars, relayVars>>

vars == <<pmVars, catVars, farmVars, relayVars, runVars>>

\* the local of a handler that holds catalog entries
NoLoc == <<>>

IdleReq == [pc |-> "idle", op |-> "-", p |-> NoRow, res |-> NoRes, loc |-> NoLoc]

(***************************************************************************)
(* PluginManager::new                                                      *)
(***************************************************************************)
\* rows a previous run may have persisted
InitRows == [Names -> {NoRow}] \cup
            {[n \in Names |-> IF n = row.name THEN row ELSE NoRow] :
                row \in {i \in AddInputs : i.name \in UserNames}}

NewPlugins(rows) ==
    [n \in Names |-> IF n \in BuiltInKeys THEN BuiltInDef(n) ELSE rows[n]]

NewRuntimes ==
    [n \in Names |-> IF n \in BuiltInRuntimeKeys
                     THEN [kind |-> "BuiltIn", run |-> FALSE, task |-> "-"]
                     ELSE NoRt]

InitPM(rows) ==
    /\ db \in rows
    /\ plugins = NewPlugins(db)
    /\ plugin_runtimes = NewRuntimes
    /\ containers = [n \in Names |-> "none"]
    /\ files = [n \in Names |-> "nodir"]
    /\ procs = [n \in Names |-> 0]
    /\ lock = [w |-> 0, rd |-> {}]
    /\ req = [r \in R |-> IdleReq]
    /\ created = [n \in Names |-> 0]
    /\ lastStart = [n \in Names |-> "none"]

(***************************************************************************)
(* The web handlers of src/src/web/plugins.rs: get_plugin from the table,  *)
(* then the RwLock, then the PluginManager method, all under one guard.    *)
(***************************************************************************)
WriteOps == {"start", "stop", "uninstall", "add", "update", "refresh"}
LookupOps == {"start", "stop", "status", "uninstall"}

Done(r, res) == [req EXCEPT ![r].pc = "done", ![r].res = res]
Goto(r, pc) == [req EXCEPT ![r].pc = pc]
Unlock(r) == [w |-> IF lock.w = r THEN 0 ELSE lock.w, rd |-> lock.rd \ {r}]

\* get_plugin(db, name) of start_plugin, stop_plugin, plugin_status, del_plugin
Call(r, op, n) ==
    /\ req[r].pc = "idle"
    /\ op \in LookupOps
    /\ IF db[n] # NoRow
       THEN req' = [req EXCEPT ![r] = [pc |-> "wait", op |-> op, p |-> db[n], res |-> NoRes, loc |-> NoLoc]]
       ELSE req' = [req EXCEPT ![r] =
                      [pc |-> "done", op |-> op, p |-> NoRow, res |-> Res("NotFound"),
                       loc |-> NoLoc]]
    /\ UNCHANGED <<db, plugins, plugin_runtimes, containers, files, procs, lock, hist, nonPm>>

\* add_plugin, update_plugin: the body is the AddPlugin, converted by into()
CallWrite(r, op, body) ==
    /\ req[r].pc = "idle"
    /\ op \in {"add", "update"}
    /\ req' = [req EXCEPT ![r] = [pc |-> "wait", op |-> op, p |-> body, res |-> NoRes, loc |-> NoLoc]]
    /\ UNCHANGED <<db, plugins, plugin_runtimes, containers, files, procs, lock, hist, nonPm>>

\* state.0.write().await / rw_lock.read().await
Acquire(r) ==
    /\ req[r].pc = "wait"
    /\ IF req[r].op \in WriteOps
       THEN /\ lock.w = 0 /\ lock.rd = {}
            /\ lock' = [lock EXCEPT !.w = r]
       ELSE /\ lock.w = 0
            /\ lock' = [lock EXCEPT !.rd = @ \cup {r}]
    /\ req' = Goto(r, "body")
    /\ UNCHANGED <<db, plugins, plugin_runtimes, containers, files, procs, hist, nonPm>>

\* the handler has returned its result to the client
Return(r) ==
    /\ req[r].pc = "done"
    /\ req' = [req EXCEPT ![r] = IdleReq]
    /\ UNCHANGED <<db, plugins, plugin_runtimes, containers, files, procs, lock, hist, nonPm>>

(***************************************************************************)
(* PluginManager::start                                                    *)
(***************************************************************************)
Bump(n) == [created EXCEPT ![n] = IF @ < MaxCreated THEN @ + 1 ELSE @]

DockerEntry == [kind |-> "Docker", run |-> TRUE, task |-> "-"]
FileEntry == [kind |-> "File", run |-> TRUE, task |-> "running"]

\* start without the check of the entry
StartNeverOccupied(p) == FALSE

\* start that takes only the entries of the built-ins for occupied
StartOccupiedBuiltIn(p) == plugin_runtimes[p.name].kind = "BuiltIn"

\* Entry::Occupied(_) of start
StartOccupied(p) == plugin_runtimes[p.name] # NoRt

\* a step of a request that ends it with res and drops the lock guard
Finish(r, res) ==
    /\ req' = Done(r, res)
    /\ lock' = Unlock(r)

\* a step of a request that goes on to its next backend call, the guard held
Continue(r, pc) ==
    /\ req' = Goto(r, pc)
    /\ lock' = lock

\* tokio::spawn of the supervising task and entry.insert(PluginRuntime::File(..))
SpawnFile(r, n) ==
    /\ plugin_runtimes' = [plugin_runtimes EXCEPT ![n] = FileEntry]
    /\ procs' = [procs EXCEPT ![n] = @ + 1]
    /\ created' = Bump(n)
    /\ lastStart' = [lastStart EXCEPT ![n] = "File"]
    /\ Finish(r, Res("true"))

\* the match on plugin_runtimes.entry(name), up to the first backend call
StartBody(r) ==
    LET p == req[r].p IN
    /\ req[r].pc = "body" /\ req[r].op = "start"
    /\ IF StartOccupied(p)
       THEN /\ Finish(r, Res("AlreadyExists"))
            /\ UNCHANGED <<plugin_runtimes, procs, hist>>
       ELSE CASE p.ptype \in {"BuiltIn", "Invalid"} ->
                   /\ Finish(r, Res("true"))
                   /\ lastStart' = [lastStart EXCEPT ![p.name] = p.ptype]
                   /\ UNCHANGED <<plugin_runtimes, procs, created>>
              [] p.ptype = "RustProject" ->
                   /\ Finish(r, Res("Unsupported"))
                   /\ UNCHANGED <<plugin_runtimes, procs, hist>>
              [] p.ptype = "Docker" ->
                   \* Docker::connect_with_defaults
                   /\ \/ Continue(r, "d_pull")
                      \/ Finish(r, Res("Other"))
                   /\ UNCHANGED <<plugin_runtimes, procs, hist>>
              [] p.ptype = "File" ->
                   \* canonicalize()?, then file_path.exists()
                   CASE files[p.name] = "nodir" ->
                          /\ Finish(r, Res("NotFound"))
                          /\ UNCHANGED <<plugin_runtimes, procs, hist>>
                     [] files[p.name] \in {"exe", "partial"} ->
                          SpawnFile(r, p.name)
                     [] files[p.name] = "dir" ->
                          \* create_dir_all
                          /\ \/ Continue(r, "f_fetch")
                             \/ Finish(r, Res("Other"))
                          /\ UNCHANGED <<plugin_runtimes, procs, hist>>
    /\ UNCHANGED <<db, plugins, containers, files, nonPm>>

\* start_file_plugin: reqwest::get, File::create, write_all, set_permissions
StartFileFetch(r) ==
    LET n == req[r].p.name IN
    /\ req[r].pc = "f_fetch"
    /\ \/ \* the request fails before the file is created
          /\ Finish(r, Res("Other"))
          /\ UNCHANGED <<plugin_runtimes, files, procs, hist>>
       \/ \* the body, the write or the chmod fails after File::create
          /\ files' = [files EXCEPT ![n] = "partial"]
          /\ Finish(r, Res("Other"))
          /\ UNCHANGED <<plugin_runtimes, procs, hist>>
       \/ /\ files' = [files EXCEPT ![n] = "exe"]
          /\ SpawnFile(r, n)
    /\ UNCHANGED <<db, plugins, containers, nonPm>>

\* what the request remembers of an image pull that sent an Err message
PullFailed == <<"Error creating image">>

\* start_docker_plugin: docker.create_image; an Err message of the stream is
\* only printed and the launch goes on with the image the daemon has
StartDockerPull(r) ==
    /\ req[r].pc = "d_pull"
    /\ \/ req' = Goto(r, "d_list")
       \/ req' = [req EXCEPT ![r].pc = "d_list", ![r].loc = PullFailed]
    /\ lock' = lock
    /\ UNCHANGED <<db, plugins, plugin_runtimes, containers, files, procs, hist, nonPm>>

\* start_docker_plugin: docker.list_containers filtered by name
StartDockerList(r) ==
    LET n == req[r].p.name IN
    /\ req[r].pc = "d_list"
    /\ \/ Continue(r, IF containers[n] = "none" THEN "d_create" ELSE "d_stop")
       \/ Finish(r, Res("Other"))
    /\ UNCHANGED <<db, plugins, plugin_runtimes, containers, files, procs, hist, nonPm>>

\* start_docker_plugin: docker.stop_container of the existing container
StartDockerStop(r) ==
    LET n == req[r].p.name IN
    /\ req[r].pc = "d_stop"
    /\ \/ /\ containers[n] # "none"
          /\ containers' = [containers EXCEPT ![n] = "exited"]
          /\ Continue(r, "d_remove")
       \/ /\ Finish(r, Res("Other"))
          /\ UNCHANGED containers
    /\ UNCHANGED <<db, plugins, plugin_runtimes, files, procs, hist, nonPm>>

\* start_docker_plugin: docker.remove_container of the existing container
StartDockerRemove(r) ==
    LET n == req[r].p.name IN
    /\ req[r].pc = "d_remove"
    /\ \/ /\ containers[n] # "none"
          /\ containers' = [containers EXCEPT ![n] = "none"]
          /\ Continue(r, "d_create")
       \/ /\ Finish(r, Res("Other"))
          /\ UNCHANGED containers
    /\ UNCHANGED <<db, plugins, plugin_runtimes, files, procs, hist, nonPm>>

\* start_docker_plugin: docker.create_container
StartDockerCreate(r) ==
    LET n == req[r].p.name IN
    /\ req[r].pc = "d_create"
    /\ \/ /\ containers[n] = "none"
          /\ containers' = [containers EXCEPT ![n] = "created"]
          /\ created' = Bump(n)
          /\ Continue(r, "d_start")
       \/ /\ Finish(r, Res("Other"))
          /\ UNCHANGED <<containers, created>>
    /\ UNCHANGED <<db, plugins, plugin_runtimes, files, procs, lastStart, nonPm>>

\* start_docker_plugin: docker.start_container, then entry.insert
StartDockerStart(r) ==
    LET n == req[r].p.name IN
    /\ req[r].pc = "d_start"
    /\ \/ /\ containers[n] # "none"
          /\ containers' = [containers EXCEPT ![n] = "running"]
          /\ plugin_runtimes' = [plugin_runtimes EXCEPT ![n] = DockerEntry]
          /\ lastStart' = [lastStart EXCEPT ![n] = "Docker"]
          /\ Finish(r, Res("true"))
       \/ /\ Finish(r, Res("Other"))
          /\ UNCHANGED <<containers, plugin_runtimes, lastStart>>
    /\ UNCHANGED <<db, plugins, files, procs, created, nonPm>>

(***************************************************************************)
(* PluginManager::stop                                                     *)
(***************************************************************************)
\* stop that reports a stop where there was nothing to stop
StopVacantTrue == Res("true")

\* the value stop returns for Entry::Vacant
StopVacant == Res("false")

\* the error stop returns for PluginRuntime::BuiltIn
StopBuiltIn == Res("AlreadyExists")

\* a stop that looks at the entry and leaves it in the map
RuntimeKept(rt) == rt

\* what runtime.remove() leaves in the map
RuntimeRemoved(rt) == NoRt

StopBody(r) ==
    LET n == req[r].p.name
        rt == plugin_runtimes[n] IN
    /\ req[r].pc = "body" /\ req[r].op = "stop"
    /\ lastStart' = [lastStart EXCEPT ![n] = "none"]
    /\ created' = [created EXCEPT ![n] = 0]
    /\ IF rt = NoRt
       THEN /\ Finish(r, StopVacant)
            /\ UNCHANGED <<plugin_runtimes, procs>>
       ELSE \* runtime.remove()
            /\ plugin_runtimes' = [plugin_runtimes EXCEPT ![n] = RuntimeRemoved(rt)]
            /\ CASE rt.kind = "Docker" ->
                     \* Docker::connect_with_defaults
                     /\ \/ Continue(r, "s_stop")
                        \/ Finish(r, Res("Other"))
                     /\ UNCHANGED procs
                 [] rt.kind = "File" ->
                     \* handle.abort(); handle.await: both errors are only logged
                     /\ procs' = [procs EXCEPT ![n] = IF rt.task = "running" THEN @ - 1 ELSE @]
                     /\ Finish(r, Res("true"))
                 [] rt.kind = "BuiltIn" ->
                     /\ Finish(r, StopBuiltIn)
                     /\ UNCHANGED procs
    /\ UNCHANGED <<db, plugins, containers, files, nonPm>>

\* stop, Docker branch: docker.stop_container
StopDockerStop(r) ==
    LET n == req[r].p.name IN
    /\ req[r].pc = "s_stop"
    /\ \/ /\ containers[n] # "none"
          /\ containers' = [containers EXCEPT ![n] = "exited"]
          /\ Continue(r, "s_remove")
       \/ /\ Finish(r, Res("Other"))
          /\ UNCHANGED containers
    /\ UNCHANGED <<db, plugins, plugin_runtimes, files, procs, hist, nonPm>>

\* stop, Docker branch: docker.remove_container
StopDockerRemove(r) ==
    LET n == req[r].p.name IN
    /\ req[r].pc = "s_remove"
    /\ \/ /\ containers[n] # "none"
          /\ containers' = [containers EXCEPT ![n] = "none"]
          /\ Finish(r, Res("true"))
       \/ /\ Finish(r, Res("Other"))
          /\ UNCHANGED containers
    /\ UNCHANGED <<db, plugins, plugin_runtimes, files, procs, hist, nonPm>>

(***************************************************************************)
(* PluginManager::status                                                   *)
(***************************************************************************)
\* the branches of status that make no backend call
\* running taken from the flag the supervising task polls
FileRunningFlag(rt) == rt.run

\* join_handle.as_ref().map(|h| !h.is_finished())
FileRunning(rt) == rt.task = "running"

StatusOf(p) ==
    LET rt == plugin_runtimes[p.name] IN
    CASE rt = NoRt -> IF plugins[p.name] # NoRow THEN StatusRes(FALSE, FALSE)
                      ELSE Res("NotFound")
      [] rt.kind = "BuiltIn" -> StatusRes(TRUE, TRUE)
      [] rt.kind = "File" -> StatusRes(FileRunning(rt), rt.run)
      [] OTHER -> Res("-")

\* what the request remembers of the daemon's answer that no container has the name
NoSuchContainer == <<"No such container">>

StatusBody(r) ==
    LET p == req[r].p
        rt == plugin_runtimes[p.name] IN
    /\ req[r].pc = "body" /\ req[r].op = "status"
    /\ IF rt.kind = "Docker"
       THEN \* connect, then docker.inspect_container(..)?
            \/ /\ containers[p.name] # "none"
               /\ Continue(r, "st_list")
            \/ \* the daemon answers: the error of inspect_container is returned
               /\ containers[p.name] = "none"
               /\ req' = [req EXCEPT ![r].pc = "done", ![r].res = Res("Other"),
                                     ![r].loc = NoSuchContainer]
               /\ lock' = Unlock(r)
            \/ \* the daemon cannot be reached
               Finish(r, Res("Other"))
       ELSE Finish(r, StatusOf(p))
    /\ UNCHANGED <<db, plugins, plugin_runtimes, containers, files, procs, hist, nonPm>>

\* status, Docker branch: docker.list_containers filtered by name
StatusDockerList(r) ==
    LET p == req[r].p
        rt == plugin_runtimes[p.name] IN
    /\ req[r].pc = "st_list"
    /\ \/ Finish(r, IF containers[p.name] = "none"
                    THEN StatusRes(FALSE, FALSE)
                    ELSE StatusRes(containers[p.name] # "exited", rt.run))
       \/ Finish(r, Res("Other"))
    /\ UNCHANGED <<db, plugins, plugin_runtimes, containers, files, procs, hist, nonPm>>

(***************************************************************************)
(* PluginManager::add, update_plugin, uninstall                            *)
(***************************************************************************)
\* create_plugin: the upsert, then get_plugin of the written row
CreatePlugin(r, row, registered) ==
    \/ /\ db' = db
       /\ plugins' = plugins
       /\ req' = Done(r, Res("Other"))
    \/ /\ db' = [db EXCEPT ![row.name] = row]
       /\ plugins' = plugins
       /\ req' = Done(r, Res("Other"))
    \/ /\ db' = [db EXCEPT ![row.name] = row]
       /\ plugins' = registered
       /\ req' = Done(r, Res("true"))

AddBody(r) ==
    LET p == req[r].p IN
    /\ req[r].pc = "body" /\ req[r].op = "add"
    /\ IF plugins[p.name] # NoRow
       THEN /\ req' = Done(r, Res("InvalidInput"))
            /\ UNCHANGED <<db, plugins>>
       ELSE CreatePlugin(r, p, [plugins EXCEPT ![p.name] = p])
    /\ lock' = Unlock(r)
    /\ UNCHANGED <<plugin_runtimes, containers, files, procs, hist, nonPm>>

UpdateBody(r) ==
    LET p == req[r].p IN
    /\ req[r].pc = "body" /\ req[r].op = "update"
    /\ IF plugins[p.name] = NoRow
       THEN /\ req' = Done(r, Res("InvalidInput"))
            /\ UNCHANGED <<db, plugins>>
       ELSE CreatePlugin(r, p, plugins)
    /\ lock' = Unlock(r)
    /\ UNCHANGED <<plugin_runtimes, containers, files, procs, hist, nonPm>>

UninstallBody(r) ==
    LET n == req[r].p.name IN
    /\ req[r].pc = "body" /\ req[r].op = "uninstall"
    /\ IF plugin_runtimes[n].kind = "BuiltIn"
       THEN /\ req' = Done(r, Res("PermissionDenied"))
            /\ UNCHANGED <<db, plugins>>
       ELSE /\ plugins' = [plugins EXCEPT ![n] = NoRow]
            \* delete_plugin(db, name).map(|v| v > 0)
            /\ \/ /\ db' = [db EXCEPT ![n] = NoRow]
                  /\ req' = Done(r, Res(IF db[n] # NoRow THEN "true" ELSE "false"))
               \/ /\ db' = db
                  /\ req' = Done(r, Res("Other"))
    /\ lock' = Unlock(r)
    /\ UNCHANGED <<plugin_runtimes, containers, files, procs, hist, nonPm>>

(***************************************************************************)
(* The environment: the docker daemon, the plugin processes, the operator. *)
(***************************************************************************)
\* the container's main process ends
ContainerExit(n) ==
    /\ containers[n] = "running"
    /\ containers' = [containers EXCEPT ![n] = "exited"]
    /\ UNCHANGED <<db, plugins, plugin_runtimes, files, procs, lock, req, hist, nonPm>>

\* the container is removed outside the plugin manager
ContainerRemoved(n) ==
    /\ containers[n] # "none"
    /\ containers' = [containers EXCEPT ![n] = "none"]
    /\ UNCHANGED <<db, plugins, plugin_runtimes, files, procs, lock, req, hist, nonPm>>

\* command.output() resolves: the supervising task returns Ok(())
ProcessExit(n) ==
    /\ plugin_runtimes[n].kind = "File"
    /\ plugin_runtimes[n].task = "running"
    /\ plugin_runtimes' = [plugin_runtimes EXCEPT ![n].task = "finished"]
    /\ procs' = [procs EXCEPT ![n] = @ - 1]
    /\ UNCHANGED <<db, plugins, containers, files, lock, req, hist, nonPm>>

\* the operator creates bin_folder/<name>
MakeDir(n) ==
    /\ files[n] = "nodir"
    /\ files' = [files EXCEPT ![n] = "dir"]
    /\ UNCHANGED <<db, plugins, plugin_runtimes, containers, procs, lock, req, hist, nonPm>>

(***************************************************************************)
(* semver::Version::parse and the order of Version, on the strings the     *)
(* model draws: MAJOR.MINOR.PATCH with an optional -PRERELEASE of one      *)
(* identifier (no build metadata).                                         *)
(***************************************************************************)
DigitVal == ("0" :> 0) @@ ("1" :> 1) @@ ("2" :> 2) @@ ("3" :> 3) @@ ("4" :> 4) @@
            ("5" :> 5) @@ ("6" :> 6) @@ ("7" :> 7) @@ ("8" :> 8) @@ ("9" :> 9)
Digits == DOMAIN DigitVal
\* the ASCII order of the characters an identifier may hold
AsciiOrder == <<"-", "0", "1", "2", "3", "4", "5", "6", "7", "8", "9",
                "a", "b", "c", "e", "f", "r", "t", "v">>
IdentChars == {AsciiOrder[i] : i \in DOMAIN AsciiOrder}
Ascii(c) == CHOOSE i \in DOMAIN AsciiOrder : AsciiOrder[i] = c

\* index of the first c in s, or 0
IndexOf(s, c) ==
    IF \E i \in DOMAIN s : s[i] = c
    THEN CHOOSE i \in DOMAIN s : s[i] = c /\ \A j \in 1..(i - 1) : s[j] # c
    ELSE 0

\* s.split(c)
RECURSIVE Split(_, _)
Split(s, c) ==
    LET i == IndexOf(s, c) IN
    IF i = 0 THEN <<s>>
    ELSE <<SubSeq(s, 1, i - 1)>> \o Split(SubSeq(s, i + 1, Len(s)), c)

IsNumeric(s) == Len(s) > 0 /\ \A i \in DOMAIN s : s[i] \in Digits
\* a numeric field: digits only, no leading zero
IsNumber(s) == IsNumeric(s) /\ (Len(s) > 1 => s[1] # "0")

RECURSIVE NumVal(_)
NumVal(s) == IF s = <<>> THEN 0 ELSE 10 * NumVal(SubSeq(s, 1, Len(s) - 1)) + DigitVal[s[Len(s)]]

IsIdent(s) ==
    /\ Len(s) > 0
    /\ \A i \in DOMAIN s : s[i] \in IdentChars
    /\ (IsNumeric(s) => IsNumber(s))

NoVersion == [ok |-> FALSE, major |-> 0, minor |-> 0, patch |-> 0, pre |-> <<>>]

\* Version::parse(s).ok()
ParseVersion(s) ==
    LET d == IndexOf(s, "-")
        core == IF d = 0 THEN s ELSE SubSeq(s, 1, d - 1)
        pre == IF d = 0 THEN <<>> ELSE SubSeq(s, d + 1, Len(s))
        parts == Split(core, ".") IN
    IF /\ Len(parts) = 3
       /\ \A i \in 1..3 : IsNumber(parts[i])
       /\ (d # 0 => IsIdent(pre))
    THEN [ok |-> TRUE, major |-> NumVal(parts[1]), minor |-> NumVal(parts[2]),
          patch |-> NumVal(parts[3]), pre |-> pre]
    ELSE NoVersion

\* lexicographic order of two identifiers by ASCII
RECURSIVE LexLess(_, _)
LexLess(a, b) ==
    CASE b = <<>> -> FALSE
      [] a = <<>> -> TRUE
      [] Ascii(a[1]) # Ascii(b[1]) -> Ascii(a[1]) < Ascii(b[1])
      [] OTHER -> LexLess(Tail(a), Tail(b))

\* Prerelease order: none is greatest; numeric below alphanumeric
PreLess(a, b) ==
    CASE a = b -> FALSE
      [] a = <<>> -> FALSE
      [] b = <<>> -> TRUE
      [] IsNumeric(a) /\ IsNumeric(b) -> NumVal(a) < NumVal(b)
      [] IsNumeric(a) -> TRUE
      [] IsNumeric(b) -> FALSE
      [] OTHER -> LexLess(a, b)

\* a < b of two parsed versions
VersionLess(a, b) ==
    CASE a.major # b.major -> a.major < b.major
      [] a.minor # b.minor -> a.minor < b.minor
      [] a.patch # b.patch -> a.patch < b.patch
      [] OTHER -> PreLess(a.pre, b.pre)

\* Version::to_string
RECURSIVE NumStr(_)
NumStr(n) ==
    LET d == CHOOSE c \in Digits : DigitVal[c] = n % 10 IN
    IF n < 10 THEN <<d>> ELSE NumStr(n \div 10) \o <<d>>

Render(v) ==
    NumStr(v.major) \o <<".">> \o NumStr(v.minor) \o <<".">> \o NumStr(v.patch)
    \o (IF v.pre = <<>> THEN <<>> ELSE <<"-">> \o v.pre)

(***************************************************************************)
(* The catalog: update_plugin_store and plugin_updates, with the handlers  *)
(* refresh_plugins and plugin_updates of src/src/web/plugins.rs.           *)
(***************************************************************************)
V120 == <<"1", ".", "2", ".", "0">>
V130 == <<"1", ".", "3", ".", "0">>
V1100 == <<"1", ".", "1", "0", ".", "0">>
V130rc == <<"1", ".", "3", ".", "0", "-", "r", "c">>
Vv130 == <<"v", "1", ".", "3", ".", "0">>
V13 == <<"1", ".", "3">>
V0130 == <<"0", "1", ".", "3", ".", "0">>
\* the version strings a row or a catalog entry may carry
VersionStrings == {V120, V130, V1100, V130rc, Vv130, V13, V0130}

NoEntry == <<"-">>
NoOut == [tag |-> "-", updates |-> {}]

\* the names the catalog document may list
CatalogNames == UserNames \cup {"file_manager"}
Catalogs == {[n \in Names |-> IF n \in CatalogNames THEN f[n] ELSE NoEntry] :
                f \in [CatalogNames -> VersionStrings \cup {NoEntry}]}
EmptyCatalog == [n \in Names |-> NoEntry]

\* the comparison with >= in the place of >
NewerOrEqual(available, current) == ~VersionLess(available, current)

\* available_version > current_version
Newer(available, current) == VersionLess(current, available)

\* the body of the loop of plugin_updates for the registry key k
UpdateFor(k) ==
    LET cur == ParseVersion(plugins[k].version)
        new == ParseVersion(available_plugins[k]) IN
    IF /\ available_plugins[k] # NoEntry
       /\ cur.ok /\ new.ok
       /\ Newer(new, cur)
    THEN {[name |-> k, current_version |-> Render(cur), new_version |-> Render(new)]}
    ELSE {}

\* plugin_updates under the read guard of the handler
PluginUpdates ==
    /\ lock.w = 0
    /\ updatesOut = NoOut
    /\ updatesOut' = [tag |-> "ok",
                      updates |-> UNION {UpdateFor(k) : k \in {n \in Names : plugins[n] # NoRow}}]
    /\ UNCHANGED <<available_plugins, notCat>>

\* the client has read the answer
UpdatesReturn ==
    /\ updatesOut # NoOut
    /\ updatesOut' = NoOut
    /\ UNCHANGED <<available_plugins, notCat>>

\* update_plugin_store under the write guard of refresh_plugins
Refresh ==
    /\ lock.w = 0 /\ lock.rd = {}
    /\ \/ \E c \in Catalogs : available_plugins' = c
       \/ \* the fetch or the yaml parse fails
          available_plugins' = available_plugins
    /\ UNCHANGED <<updatesOut, notCat>>

CatQuiet ==
    /\ available_plugins = EmptyCatalog
    /\ updatesOut = NoOut

CatInit ==
    /\ available_plugins \in Catalogs
    /\ updatesOut = NoOut

(***************************************************************************)
(* The handlers refresh_plugins and available_plugins, step by step        *)
(***************************************************************************)
\* the documents plugins.yaml may hold, and a body that is not a PluginStore
StoreVersions == {V120, V130}
StoreDocs == {c \in Catalogs : \A n \in CatalogNames : c[n] \in StoreVersions \cup {NoEntry}}
Garbage == <<"not yaml">>

\* the fetched entries inserted into the map that is already there
StoreExtend(old, doc) == [n \in Names |-> IF doc[n] # NoEntry THEN doc[n] ELSE old[n]]

\* self.available_plugins = HashMap::from_iter(plugin_store.plugins ...)
StoreAssign(old, doc) == doc

\* a request to /api/plugins/refresh or /api/plugins/available arrives
CallCatalog(r, op) ==
    /\ req[r].pc = "idle"
    /\ op \in {"refresh", "available"}
    /\ req' = [req EXCEPT ![r] = [pc |-> "wait", op |-> op, p |-> NoRow, res |-> NoRes,
                                  loc |-> NoLoc]]
    /\ UNCHANGED <<db, plugins, plugin_runtimes, containers, files, procs, lock, hist, nonPm>>

\* reqwest::get(plugin_url).await?.text().await? under the write guard
RefreshFetch(r) ==
    /\ req[r].pc = "body" /\ req[r].op = "refresh"
    /\ \/ Finish(r, Res("Other"))
       \/ \E doc \in StoreDocs \cup {Garbage} :
            /\ req' = [req EXCEPT ![r].pc = "rf_store", ![r].loc = doc]
            /\ UNCHANGED lock
    /\ UNCHANGED <<db, plugins, plugin_runtimes, containers, files, procs, hist, nonPm>>

\* serde_yaml::from_str(&plugin_yaml)?, the assignment, Ok(true); the write
\* guard of the handler is dropped at the end of its first statement
RefreshStore(r) ==
    /\ req[r].pc = "rf_store"
    /\ IF req[r].loc = Garbage
       THEN /\ Finish(r, Res("Other"))
            /\ UNCHANGED available_plugins
       ELSE /\ available_plugins' = StoreAssign(available_plugins, req[r].loc)
            /\ lock' = Unlock(r)
            /\ req' = [req EXCEPT ![r].pc = "rf_read", ![r].loc = NoLoc]
    /\ UNCHANGED <<db, plugins, plugin_runtimes, containers, files, procs, hist,
                   updatesOut, farmVars, relayVars, runVars>>

\* state.0.read().await of the second statement of refresh_plugins
RefreshRead(r) ==
    /\ req[r].pc = "rf_read"
    /\ lock.w = 0
    /\ lock' = [lock EXCEPT !.rd = @ \cup {r}]
    /\ req' = Goto(r, "av_first")
    /\ UNCHANGED <<db, plugins, plugin_runtimes, containers, files, procs, hist, nonPm>>

\* values().cloned().collect() walks the map: the entries visited first
AvailFirst(r) ==
    /\ \/ req[r].pc = "body" /\ req[r].op = "available"
       \/ req[r].pc = "av_first"
    /\ req' = [req EXCEPT ![r].pc = "av_rest",
                          ![r].loc = [n \in Names |-> IF n \in UserNames
                                                      THEN available_plugins[n] ELSE NoEntry]]
    /\ UNCHANGED <<db, plugins, plugin_runtimes, containers, files, procs, lock, hist, nonPm>>

\* the remaining entries; the Vec is returned and the read guard dropped
AvailRest(r) ==
    /\ req[r].pc = "av_rest"
    /\ req' = [req EXCEPT ![r].pc = "done", ![r].res = Res("true"),
                          ![r].loc = [n \in Names |-> IF n \in UserNames
                                                      THEN req[r].loc[n]
                                                      ELSE available_plugins[n]]]
    /\ lock' = Unlock(r)
    /\ UNCHANGED <<db, plugins, plugin_runtimes, containers, files, procs, hist, nonPm>>

(***************************************************************************)
(* FarmerManager::update_farmer                                            *)
(***************************************************************************)
\* concurrent update_farmer calls
NumUpd == 2
U == 1..NumUpd

V140 == <<"1", ".", "4", ".", "0">>
Label == <<"f", "f">>

\* a file is what running it with --version prints, token by token
Absent == [exists |-> FALSE, runs |-> FALSE, out |-> <<>>]
Broken == [exists |-> TRUE, runs |-> FALSE, out |-> <<>>]
Bin(out) == [exists |-> TRUE, runs |-> TRUE, out |-> out]

FarmVersions == {V130, V140}
\* what may be installed at BIN_PATH when the service starts
InstalledFiles == {Absent, Bin(<<V120>>), Bin(<<V130>>), Bin(<<Label, V140>>),
                   Bin(<<Label, Label, V130>>)}
\* what the build server may send for a download
Builds == {Bin(<<v>>) : v \in FarmVersions} \cup {Bin(<<Label, V130>>), Broken}

NoStr == <<>>
Manifests == {[current |-> V130, beta |-> NoStr], [current |-> V130, beta |-> V140]}

\* the row of farmer_update_channel
NoSetting == [present |-> FALSE, value |-> ""]
Setting(v) == [present |-> TRUE, value |-> v]
Settings == {NoSetting, Setting("Beta"), Setting("release"), Setting("nightly")}

\* str::to_ascii_lowercase on the values above
Lower(v) ==
    CASE v = "Beta" -> "beta"
      [] v = "BETA" -> "beta"
      [] v = "Release" -> "release"
      [] OTHER -> v

Archs == {"x86_64", "aarch64", "riscv64"}

\* the match on get_config_key(.., "farmer_update_channel")
ChannelOf(setting) ==
    IF setting.present /\ Lower(setting.value) = "beta" THEN "Beta" ELSE "Release"

\* the version update_farmer compares with and installs
TargetOf(ch, m) ==
    IF ch = "Beta" /\ m.beta # NoStr THEN ParseVersion(m.beta) ELSE ParseVersion(m.current)

\* get_binary_version
GetBinaryVersion(f) ==
    IF ~f.exists \/ ~f.runs THEN NoVersion
    ELSE IF Len(f.out) >= 1 /\ ParseVersion(f.out[1]).ok THEN ParseVersion(f.out[1])
    ELSE IF Len(f.out) >= 2 THEN ParseVersion(f.out[2])
    ELSE NoVersion

\* bin_version >= target
NotOlder(bin_version, target) == ~VersionLess(bin_version, target)

\* the value of install after the check of the installed binary
InstallDecision(file, target) ==
    LET bin_version == GetBinaryVersion(file) IN
    IF file.exists /\ bin_version.ok THEN NotOlder(bin_version, target) ELSE TRUE

\* get_download_url that sends every other architecture to the aarch64 builds
ArchTokenAny(a) == IF a = "x86_64" THEN "amd64" ELSE a

\* get_download_url: the path token of the architecture, "" for Unsupported
ArchToken(a) ==
    CASE a = "x86_64" -> "amd64"
      [] a = "aarch64" -> a
      [] OTHER -> ""

\* the check of the downloaded binary against the version to install
Verified(downloaded_version, version) ==
    downloaded_version.ok /\ downloaded_version = version

IdleUpd == [pc |-> "idle", old |-> Absent, target |-> NoVersion, install |-> FALSE,
            res |-> "-", net |-> <<>>]

\* the call returns res: its locals are dropped, what it has requested
\* and whether it went to install stay on record for the caller
Ended(call, res) ==
    [IdleUpd EXCEPT !.pc = "done", !.res = res, !.install = call.install, !.net = call.net]

UpdDone(u, res) == [upd EXCEPT ![u] = Ended(@, res)]
UpdGoto(u, pc) == [upd EXCEPT ![u].pc = pc]

\* update_farmer is called
UpdCall(u) ==
    /\ upd[u].pc = "idle"
    /\ upd' = [upd EXCEPT ![u] = [IdleUpd EXCEPT !.pc = "lock"]]
    /\ UNCHANGED <<live, backup, tmp, manifest, channel, arch, install_mutex, notFarm>>

\* self.install_mutex.lock().await
UpdLock(u) ==
    /\ upd[u].pc = "lock"
    /\ install_mutex = 0
    /\ install_mutex' = u
    /\ upd' = [upd EXCEPT ![u].pc = "fetch", ![u].old = live]
    /\ UNCHANGED <<live, backup, tmp, manifest, channel, arch, notFarm>>

\* fetch_manifest
UpdFetch(u) ==
    /\ upd[u].pc = "fetch"
    /\ \/ /\ upd' = [upd EXCEPT ![u].pc = "decide", ![u].net = Append(@, "manifest")]
          /\ install_mutex' = install_mutex
       \/ /\ upd' = [upd EXCEPT ![u] = Ended([@ EXCEPT !.net = Append(@, "manifest")], "Other")]
          /\ install_mutex' = 0
    /\ UNCHANGED <<live, backup, tmp, manifest, channel, arch, notFarm>>

\* the channel, the check of the installed binary, the version to install
UpdDecide(u) ==
    LET target == TargetOf(ChannelOf(channel), manifest)
        install == InstallDecision(live, target) IN
    /\ upd[u].pc = "decide"
    /\ IF install
       THEN /\ upd' = [upd EXCEPT ![u].pc = "url", ![u].target = target, ![u].install = TRUE]
            /\ install_mutex' = install_mutex
       ELSE /\ upd' = UpdDone(u, "ok")
            /\ install_mutex' = 0
    /\ UNCHANGED <<live, backup, tmp, manifest, channel, arch, notFarm>>

\* get_download_url(&version.to_string())?
UpdUrl(u) ==
    /\ upd[u].pc = "url"
    /\ IF ArchToken(arch) # ""
       THEN /\ upd' = UpdGoto(u, "download")
            /\ install_mutex' = install_mutex
       ELSE /\ upd' = UpdDone(u, "Unsupported")
            /\ install_mutex' = 0
    /\ UNCHANGED <<live, backup, tmp, manifest, channel, arch, notFarm>>

\* download_file(client, TMP_PATH, url)
UpdDownload(u) ==
    /\ upd[u].pc = "download"
    /\ \/ \* send or error_for_status fails: no file is created
          /\ upd' = [upd EXCEPT ![u] = Ended([@ EXCEPT !.net = Append(@, "download")], "Other")]
          /\ install_mutex' = 0
          /\ tmp' = tmp
       \/ \* a chunk or a write fails after File::create
          /\ upd' = [upd EXCEPT ![u] = Ended([@ EXCEPT !.net = Append(@, "download")], "Other")]
          /\ install_mutex' = 0
          /\ tmp' = Broken
       \/ \E b \in Builds :
          /\ upd' = [upd EXCEPT ![u].pc = "chmod", ![u].net = Append(@, "download")]
          /\ install_mutex' = install_mutex
          /\ tmp' = b
    /\ UNCHANGED <<live, backup, manifest, channel, arch, notFarm>>

\* set_executable_bit(TMP_PATH)
UpdChmod(u) ==
    /\ upd[u].pc = "chmod"
    /\ \/ /\ upd' = UpdGoto(u, "verify")
          /\ install_mutex' = install_mutex
       \/ /\ upd' = UpdDone(u, "Other")
          /\ install_mutex' = 0
    /\ UNCHANGED <<live, backup, tmp, manifest, channel, arch, notFarm>>

\* get_binary_version(TMP_PATH) and the comparison with version
UpdVerify(u) ==
    /\ upd[u].pc = "verify"
    /\ IF Verified(GetBinaryVersion(tmp), upd[u].target)
       THEN /\ upd' = UpdGoto(u, "swap_rm")
            /\ install_mutex' = install_mutex
       ELSE /\ upd' = UpdDone(u, "Other")
            /\ install_mutex' = 0
    /\ UNCHANGED <<live, backup, tmp, manifest, channel, arch, notFarm>>

\* swap_binaries: let _ = remove_file(BACKUP_PATH)
UpdSwapRemove(u) ==
    /\ upd[u].pc = "swap_rm"
    /\ upd' = UpdGoto(u, "swap_mv")
    /\ \/ backup' = Absent
       \/ backup' = backup
    /\ UNCHANGED <<live, tmp, manifest, channel, arch, install_mutex, notFarm>>

\* swap_binaries: rename(BIN_PATH, BACKUP_PATH)?
UpdSwapRename(u) ==
    /\ upd[u].pc = "swap_mv"
    /\ \/ /\ live.exists
          /\ backup' = live
          /\ live' = Absent
          /\ upd' = UpdGoto(u, "swap_cp")
          /\ install_mutex' = install_mutex
       \/ /\ upd' = UpdDone(u, "Other")
          /\ install_mutex' = 0
          /\ UNCHANGED <<live, backup>>
    /\ UNCHANGED <<tmp, manifest, channel, arch, notFarm>>

\* swap_binaries: copy(TMP_PATH, BIN_PATH)
UpdSwapCopy(u) ==
    /\ upd[u].pc = "swap_cp"
    /\ \/ /\ live' = tmp
          /\ upd' = UpdDone(u, "ok")
       \/ /\ live' \in {Absent, Broken}
          /\ upd' = UpdDone(u, "Other")
    /\ install_mutex' = 0
    /\ UNCHANGED <<backup, tmp, manifest, channel, arch, notFarm>>

\* the caller has the result
UpdReturn(u) ==
    /\ upd[u].pc = "done"
    /\ upd' = [upd EXCEPT ![u] = IdleUpd]
    /\ UNCHANGED <<live, backup, tmp, manifest, channel, arch, install_mutex, notFarm>>

FarmQuiet ==
    /\ live = Absent /\ backup = Absent /\ tmp = Absent
    /\ manifest = [current |-> V130, beta |-> NoStr]
    /\ channel = NoSetting
    /\ arch = "x86_64"
    /\ install_mutex = 0
    /\ upd = [u \in U |-> IdleUpd]

FarmInit ==
    /\ live \in InstalledFiles
    /\ backup = Absent /\ tmp = Absent
    /\ manifest \in Manifests
    /\ channel \in Settings
    /\ arch \in Archs
    /\ install_mutex = 0
    /\ upd = [u \in U |-> IdleUpd]

(***************************************************************************)
(* FarmerManager::farmer_log_stream                                        *)
(***************************************************************************)
\* messages each peer sends on its websocket
MaxMsgs == 2

\* a websocket as the relay sees it: state of the peer's end, the message
\* next() would yield, whether next() would yield Err, and what the peer
\* has sent and has been sent
NoSocket == [state |-> "none", inbox |-> 0, fail |-> FALSE, sent |-> 0, got |-> 0]
OpenSocket == [NoSocket EXCEPT !.state = "open"]
Dropped(sock) == [sock EXCEPT !.state = "dropped", !.inbox = 0, !.fail = FALSE]

IdleRelay == [pc |-> "idle", res |-> "-"]

\* farmer_log_stream returns res: both sockets go out of scope
RelayEnds(res) ==
    /\ relay' = [pc |-> "done", res |-> res]
    /\ client_socket' = Dropped(client_socket)
    /\ upstream_socket' = Dropped(upstream_socket)

\* the websocket handler of /farmer/log_stream/{level} calls farmer_log_stream
LogStreamCall ==
    /\ relay.pc = "idle"
    /\ relay' = [pc |-> "connect", res |-> "-"]
    /\ client_socket' = OpenSocket
    /\ UNCHANGED <<upstream_socket, terminated, notRelay>>

\* farmer_url, set_scheme, new_websocket
LogStreamConnect ==
    /\ relay.pc = "connect"
    /\ \/ /\ relay' = [relay EXCEPT !.pc = "select"]
          /\ upstream_socket' = OpenSocket
          /\ UNCHANGED client_socket
       \/ RelayEnds("Err")
    /\ UNCHANGED <<terminated, notRelay>>

\* socket.next() has a value: an error, a message, or the end of the stream
Ready(sock) == sock.fail \/ sock.inbox > 0 \/ sock.state = "closed"

\* one arm of the select: from.next(), then to.send(msg)
Pump(from, to) ==
    CASE from.fail -> [pc |-> "done", res |-> "Err", from |-> from, to |-> to]
      [] from.inbox > 0 ->
           IF to.state = "open" /\ ~to.fail
           THEN [pc |-> "select", res |-> "-",
                 from |-> [from EXCEPT !.inbox = 0], to |-> [to EXCEPT !.got = @ + 1]]
           ELSE [pc |-> "done", res |-> "Err",
                 from |-> [from EXCEPT !.inbox = 0], to |-> to]
      [] OTHER -> [pc |-> "sleep", res |-> "-", from |-> from, to |-> to]

\* upstream_message = upstream_socket.next()
RelayUpstream ==
    LET out == Pump(upstream_socket, client_socket) IN
    /\ relay.pc = "select"
    /\ Ready(upstream_socket)
    /\ relay' = [pc |-> out.pc, res |-> out.res]
    /\ upstream_socket' = IF out.pc = "done" THEN Dropped(out.from) ELSE out.from
    /\ client_socket' = IF out.pc = "done" THEN Dropped(out.to) ELSE out.to
    /\ UNCHANGED <<terminated, notRelay>>

\* client_message = client_socket.next()
RelayClient ==
    LET out == Pump(client_socket, upstream_socket) IN
    /\ relay.pc = "select"
    /\ Ready(client_socket)
    /\ relay' = [pc |-> out.pc, res |-> out.res]
    /\ client_socket' = IF out.pc = "done" THEN Dropped(out.from) ELSE out.from
    /\ upstream_socket' = IF out.pc = "done" THEN Dropped(out.to) ELSE out.to
    /\ UNCHANGED <<terminated, notRelay>>

\* _ = await_termination()
RelayTerminated ==
    /\ relay.pc = "select"
    /\ terminated
    /\ RelayEnds("ok")
    /\ UNCHANGED <<terminated, notRelay>>

\* tokio::time::sleep(Duration::from_millis(1)) is over
RelaySleep ==
    /\ relay.pc = "sleep"
    /\ relay' = [relay EXCEPT !.pc = "select"]
    /\ UNCHANGED <<client_socket, upstream_socket, terminated, notRelay>>

\* the handler has returned
RelayReturn ==
    /\ relay.pc = "done"
    /\ relay' = IdleRelay
    /\ client_socket' = NoSocket
    /\ upstream_socket' = NoSocket
    /\ UNCHANGED <<terminated, notRelay>>

\* a peer sends a message
PeerSend(sock) ==
    /\ sock.state = "open" /\ sock.inbox = 0 /\ sock.sent < MaxMsgs
    /\ sock' = [sock EXCEPT !.inbox = 1, !.sent = @ + 1]

ClientSend ==
    /\ PeerSend(client_socket)
    /\ UNCHANGED <<relay, upstream_socket, terminated, notRelay>>

UpstreamSend ==
    /\ PeerSend(upstream_socket)
    /\ UNCHANGED <<relay, client_socket, terminated, notRelay>>

\* a peer closes its end: the stream ends after what is still to be read
ClientClose ==
    /\ client_socket.state = "open"
    /\ client_socket' = [client_socket EXCEPT !.state = "closed"]
    /\ UNCHANGED <<relay, upstream_socket, terminated, notRelay>>

UpstreamClose ==
    /\ upstream_socket.state = "open"
    /\ upstream_socket' = [upstream_socket EXCEPT !.state = "closed"]
    /\ UNCHANGED <<relay, client_socket, terminated, notRelay>>

\* a connection breaks: the next read or write fails
ClientError ==
    /\ client_socket.state \in {"open", "closed"} /\ ~client_socket.fail
    /\ client_socket' = [client_socket EXCEPT !.fail = TRUE]
    /\ UNCHANGED <<relay, upstream_socket, terminated, notRelay>>

UpstreamError ==
    /\ upstream_socket.state \in {"open", "closed"} /\ ~upstream_socket.fail
    /\ upstream_socket' = [upstream_socket EXCEPT !.fail = TRUE]
    /\ UNCHANGED <<relay, client_socket, terminated, notRelay>>

\* the process is told to shut down
Terminate ==
    /\ ~terminated
    /\ terminated' = TRUE
    /\ UNCHANGED <<relay, client_socket, upstream_socket, notRelay>>

RelayQuiet ==
    /\ relay = IdleRelay
    /\ client_socket = NoSocket
    /\ upstream_socket = NoSocket
    /\ terminated = FALSE

(***************************************************************************)
(* FarmerManager::start_farmer, stop_farmer, farmer_status                 *)
(***************************************************************************)
NumCall == 2
MaxSpawn == 2
FC == 1..NumCall
Kids == 1..MaxSpawn

IdleRun == [pc |-> "idle", op |-> "-", res |-> "-", u |-> 0, h |-> 0]

\* the call returns res: its locals are dropped
RunDone(c, res) ==
    [run EXCEPT ![c] = [IdleRun EXCEPT !.pc = "done", !.op = run[c].op, !.res = res]]
RunGoto(c, pc) == [run EXCEPT ![c].pc = pc]

\* one lock for the child handle and for the installation
BothFree == instLock = 0 /\ install_mutex = 0

\* self.instance.write().await can be granted
InstanceFree == instLock = 0

\* a start that finds no child whatever the handle holds
NeverStarted(inst) == FALSE

\* match &*instance { Some(_) => ..
AlreadyStarted(inst) == inst # 0

\* a stop that looks at the handle and leaves it in place
Peek(inst) == inst

\* what instance.take() leaves behind
Take(inst) == 0

\* start_farmer, stop_farmer or farmer_status is called
FarmerCall(c, op) ==
    /\ run[c].pc = "idle"
    /\ op \in {"start", "stop", "status"}
    /\ run' = [run EXCEPT ![c] = [IdleRun EXCEPT !.pc = IF op = "start" THEN "ensure" ELSE "lock",
                                                 !.op = op]]
    /\ UNCHANGED <<instance, children, config_file, instLock, notRun>>

\* ensure_installed: update_farmer is called when BIN_PATH does not exist
StartEnsure(c) ==
    /\ run[c].pc = "ensure"
    /\ IF live.exists
       THEN /\ run' = RunGoto(c, "lock")
            /\ UNCHANGED upd
       ELSE LET free == {u \in U : upd[u].pc = "idle"} IN
            /\ free # {}
            /\ LET u == CHOOSE v \in free : \A w \in free : v <= w IN
               /\ upd' = [upd EXCEPT ![u] = [IdleUpd EXCEPT !.pc = "lock"]]
               /\ run' = [run EXCEPT ![c].pc = "update", ![c].u = u]
    /\ UNCHANGED <<instance, children, config_file, instLock, live, backup, tmp, manifest,
                   channel, arch, install_mutex, pmVars, catVars, relayVars>>

\* self.ensure_installed().await?
StartUpdated(c) ==
    /\ run[c].pc = "update"
    /\ upd[run[c].u].pc = "done"
    /\ upd' = [upd EXCEPT ![run[c].u] = IdleUpd]
    /\ IF upd[run[c].u].res = "ok"
       THEN run' = [run EXCEPT ![c].pc = "lock", ![c].u = 0]
       ELSE run' = RunDone(c, upd[run[c].u].res)
    /\ UNCHANGED <<instance, children, config_file, instLock, live, backup, tmp, manifest,
                   channel, arch, install_mutex, pmVars, catVars, relayVars>>

\* start_farmer: self.instance.write().await is granted, match &*instance
StartFarmer(c) ==
    /\ run[c].pc = "lock" /\ run[c].op = "start"
    /\ InstanceFree
    /\ IF AlreadyStarted(instance)
       THEN /\ run' = RunDone(c, "InvalidInput")
            /\ UNCHANGED instLock
       ELSE /\ run' = RunGoto(c, "create")
            /\ instLock' = c
    /\ UNCHANGED <<instance, children, config_file, notRun>>

\* File::create("/tmp/fast_farmer_config.yaml").await? and write_all(..).await?
StartCreate(c) ==
    /\ run[c].pc = "create"
    /\ \/ /\ config_file' = TRUE
          /\ run' = RunGoto(c, "spawn")
          /\ UNCHANGED instLock
       \/ /\ config_file' \in {config_file, TRUE}
          /\ run' = RunDone(c, "Other")
          /\ instLock' = 0
    /\ UNCHANGED <<instance, children, notRun>>

\* Command::new(..).kill_on_drop(true).spawn()?; *instance = Some(child);
\* the handle the assignment replaces is dropped
StartSpawn(c) ==
    /\ run[c].pc = "spawn"
    /\ \/ LET unborn == {k \in Kids : children[k] = "unborn"} IN
          /\ unborn # {}
          /\ LET k == CHOOSE v \in unborn : \A w \in unborn : v <= w IN
             /\ children' = [j \in Kids |->
                               IF j = k THEN "running"
                               ELSE IF j = instance /\ children[j] = "running" THEN "killed"
                               ELSE children[j]]
             /\ instance' = k
          /\ run' = RunDone(c, "ok")
       \/ /\ run' = RunDone(c, "Other")
          /\ UNCHANGED <<instance, children>>
    /\ instLock' = 0
    /\ UNCHANGED <<config_file, notRun>>

\* stop_farmer: self.instance.write().await is granted, match instance.take()
StopFarmer(c) ==
    /\ run[c].pc = "lock" /\ run[c].op = "stop"
    /\ InstanceFree
    /\ IF instance = 0
       THEN /\ run' = RunDone(c, "ok")
            /\ UNCHANGED <<instance, instLock>>
       ELSE /\ instance' = Take(instance)
            /\ run' = [run EXCEPT ![c].pc = "kill", ![c].h = instance]
            /\ instLock' = c
    /\ UNCHANGED <<children, config_file, notRun>>

\* let _ = handle.kill().await
StopKill(c) ==
    /\ run[c].pc = "kill"
    /\ children' = [children EXCEPT ![run[c].h] = IF @ = "running" THEN "killed" ELSE @]
    /\ run' = RunGoto(c, "rm")
    /\ UNCHANGED <<instance, config_file, instLock, notRun>>

\* tokio::fs::remove_file("/tmp/fast_farmer_config.yaml").await?; Ok(())
StopRemove(c) ==
    /\ run[c].pc = "rm"
    /\ \/ /\ config_file
          /\ config_file' = FALSE
          /\ run' = RunDone(c, "ok")
       \/ /\ run' = RunDone(c, "Other")
          /\ UNCHANGED config_file
    /\ instLock' = 0
    /\ UNCHANGED <<instance, children, notRun>>

\* a status that drops the handle of a child that has ended
Reaped(inst) == IF inst # 0 /\ children[inst] # "running" THEN 0 ELSE inst

\* match &mut *instance { Some(handle) => handle.try_wait() .. }: the handle stays
Waited(inst) == inst

\* what farmer_status answers for the handle it finds
FarmerStatus ==
    IF instance = 0 THEN {"Stopped"}
    ELSE {IF children[instance] = "running" THEN "Running" ELSE "Exited", "Unknown"}

\* farmer_status: self.instance.write().await is granted, match &mut *instance,
\* handle.try_wait(); the function awaits nothing else
StatusFarmer(c) ==
    /\ run[c].pc = "lock" /\ run[c].op = "status"
    /\ InstanceFree
    /\ \E st \in FarmerStatus : run' = RunDone(c, st)
    /\ instance' = Waited(instance)
    /\ UNCHANGED <<children, config_file, instLock, notRun>>

\* the farmer process ends by itself
ChildExit(k) ==
    /\ children[k] = "running"
    /\ children' = [children EXCEPT ![k] = "exited"]
    /\ UNCHANGED <<instance, config_file, instLock, run, notRun>>

\* the caller has the result
FarmerReturn(c) ==
    /\ run[c].pc = "done"
    /\ run' = [run EXCEPT ![c] = IdleRun]
    /\ UNCHANGED <<instance, children, config_file, instLock, notRun>>

\* the binary at BIN_PATH is removed from outside the service
BinRemoved ==
    /\ live.exists
    /\ live' = Absent
    /\ UNCHANGED <<backup, tmp, manifest, channel, arch, install_mutex, upd, notFarm>>

RunQuiet ==
    /\ instance = 0
    /\ children = [k \in Kids |-> "unborn"]
    /\ config_file = FALSE
    /\ instLock = 0
    /\ run = [c \in FC |-> IdleRun]

(***************************************************************************)
(* The specifications.                                                     *)
(***************************************************************************)
NoRows == {[n \in Names |-> NoRow]}

\* the life cycle of the user's plugins: start, stop and status requests
Init == InitPM(InitRows) /\ CatQuiet /\ FarmQuiet /\ RelayQuiet /\ RunQuiet

Next ==
    \/ \E r \in R, op \in {"start", "stop", "status"}, n \in UserNames : Call(r, op, n)
    \/ \E r \in R : Acquire(r)
    \/ \E r \in R : Return(r)
    \/ \E r \in R : StartBody(r)
    \/ \E r \in R : StartFileFetch(r)
    \/ \E r \in R : StartDockerPull(r)
    \/ \E r \in R : StartDockerList(r)
    \/ \E r \in R : StartDockerStop(r)
    \/ \E r \in R : StartDockerRemove(r)
    \/ \E r \in R : StartDockerCreate(r)
    \/ \E r \in R : StartDockerStart(r)
    \/ \E r \in R : StopBody(r)
    \/ \E r \in R : StopDockerStop(r)
    \/ \E r \in R : StopDockerRemove(r)
    \/ \E r \in R : StatusBody(r)
    \/ \E r \in R : StatusDockerList(r)
    \/ \E n \in UserNames : ContainerExit(n)
    \/ \E n \in UserNames : ContainerRemoved(n)
    \/ \E n \in UserNames : ProcessExit(n)
    \/ \E n \in UserNames : MakeDir(n)

Spec == Init /\ [][Next]_vars

\* NumReq start requests for one name, none of them answered yet, and no stop
NextStart ==
    \/ \E r \in R, n \in UserNames : Call(r, "start", n)
    \/ \E r \in R : Acquire(r)
    \/ \E r \in R : StartBody(r)
    \/ \E r \in R : StartFileFetch(r)
    \/ \E r \in R : StartDockerPull(r)
    \/ \E r \in R : StartDockerList(r)
    \/ \E r \in R : StartDockerStop(r)
    \/ \E r \in R : StartDockerRemove(r)
    \/ \E r \in R : StartDockerCreate(r)
    \/ \E r \in R : StartDockerStart(r)
    \/ \E n \in UserNames : ContainerExit(n)
    \/ \E n \in UserNames : ContainerRemoved(n)
    \/ \E n \in UserNames : ProcessExit(n)
    \/ \E n \in UserNames : MakeDir(n)

SpecStart == Init /\ [][NextStart]_vars

\* requests that name a built-in, whose row a PUT /api/plugins has written
BuiltInBodies == {b \in AddInputs : b.name \in BuiltInInputNames}

InitBuiltIn == InitPM(NoRows) /\ CatQuiet /\ FarmQuiet /\ RelayQuiet /\ RunQuiet

NextBuiltIn ==
    \/ \E r \in R, op \in LookupOps, n \in BuiltInInputNames : Call(r, op, n)
    \/ \E r \in R, op \in {"add", "update"}, b \in BuiltInBodies : CallWrite(r, op, b)
    \/ \E r \in R : Acquire(r)
    \/ \E r \in R : Return(r)
    \/ \E r \in R : StartBody(r)
    \/ \E r \in R : StopBody(r)
    \/ \E r \in R : StatusBody(r)
    \/ \E r \in R : AddBody(r)
    \/ \E r \in R : UpdateBody(r)
    \/ \E r \in R : UninstallBody(r)

SpecBuiltIn == InitBuiltIn /\ [][NextBuiltIn]_vars

\* the registry of the user's plugins: add, update and remove next to start,
\* stop and status of a File plugin
RegistryBodies == {b \in AddInputs : b.name \in UserNames /\ b.ptype \in {"File", "Invalid"}}
RegistryRows == {rows \in InitRows : \A n \in Names : rows[n].ptype \in {"-", "File"}}

InitRegistry == InitPM(RegistryRows) /\ CatQuiet /\ FarmQuiet /\ RelayQuiet /\ RunQuiet

NextRegistry ==
    \/ \E r \in R, op \in LookupOps, n \in UserNames : Call(r, op, n)
    \/ \E r \in R, op \in {"add", "update"}, b \in RegistryBodies : CallWrite(r, op, b)
    \/ \E r \in R : Acquire(r)
    \/ \E r \in R : Return(r)
    \/ \E r \in R : StartBody(r)
    \/ \E r \in R : StartFileFetch(r)
    \/ \E r \in R : StopBody(r)
    \/ \E r \in R : StatusBody(r)
    \/ \E r \in R : AddBody(r)
    \/ \E r \in R : UpdateBody(r)
    \/ \E r \in R : UninstallBody(r)
    \/ \E n \in UserNames : ProcessExit(n)
    \/ \E n \in UserNames : MakeDir(n)

SpecRegistry == InitRegistry /\ [][NextRegistry]_vars

\* the catalog against the registry
VersionRows ==
    {[n \in Names |-> IF n \in UserNames THEN MkPlugin(n, "File", v, 1) ELSE NoRow] :
        v \in VersionStrings}

InitUpdates == InitPM(NoRows \cup VersionRows) /\ CatInit /\ FarmQuiet /\ RelayQuiet /\ RunQuiet

NextUpdates ==
    \/ PluginUpdates
    \/ UpdatesReturn
    \/ Refresh

SpecUpdates == InitUpdates /\ [][NextUpdates]_vars

\* update_farmer
InitFarmer == InitPM(NoRows) /\ CatQuiet /\ FarmInit /\ RelayQuiet /\ RunQuiet

NextFarmer ==
    \/ \E u \in U : UpdCall(u)
    \/ \E u \in U : UpdLock(u)
    \/ \E u \in U : UpdFetch(u)
    \/ \E u \in U : UpdDecide(u)
    \/ \E u \in U : UpdUrl(u)
    \/ \E u \in U : UpdDownload(u)
    \/ \E u \in U : UpdChmod(u)
    \/ \E u \in U : UpdVerify(u)
    \/ \E u \in U : UpdSwapRemove(u)
    \/ \E u \in U : UpdSwapRename(u)
    \/ \E u \in U : UpdSwapCopy(u)
    \/ \E u \in U : UpdReturn(u)

SpecFarmer == InitFarmer /\ [][NextFarmer]_vars

\* the log stream relay between the browser and the farmer
\* farmer start, stop and status calls, with the update a start may run.
\* rename(BIN_PATH, ..) fails when ensure_installed found no binary, so the
\* copy of swap_binaries is not reached from start_farmer.
InitRun ==
    /\ InitPM(NoRows) /\ CatQuiet /\ RelayQuiet /\ RunQuiet
    /\ live \in {Absent, Bin(<<V130>>)}
    /\ backup = Absent /\ tmp = Absent
    /\ manifest = [current |-> V130, beta |-> NoStr]
    /\ channel = NoSetting
    /\ arch = "x86_64"
    /\ install_mutex = 0
    /\ upd = [u \in U |-> IdleUpd]

\* the call is granted the lock and runs to its first await or to its end
FarmerLock(c) ==
    \/ StartFarmer(c)
    \/ StopFarmer(c)
    \/ StatusFarmer(c)

\* a call that holds the lock goes on after an await
RunStep(c) ==
    \/ StartCreate(c)
    \/ StartSpawn(c)
    \/ StopKill(c)
    \/ StopRemove(c)

NextRun ==
    \/ \E c \in FC, op \in {"start", "stop", "status"} : FarmerCall(c, op)
    \/ \E c \in FC : StartEnsure(c)
    \/ \E c \in FC : StartUpdated(c)
    \/ \E c \in FC : FarmerLock(c)
    \/ \E c \in FC : RunStep(c)
    \/ \E c \in FC : FarmerReturn(c)
    \/ \E k \in Kids : ChildExit(k)
    \/ \E u \in U : UpdLock(u)
    \/ \E u \in U : UpdFetch(u)
    \/ \E u \in U : UpdDecide(u)
    \/ \E u \in U : UpdUrl(u)
    \/ \E u \in U : UpdDownload(u)
    \/ \E u \in U : UpdChmod(u)
    \/ \E u \in U : UpdVerify(u)
    \/ \E u \in U : UpdSwapRemove(u)
    \/ \E u \in U : UpdSwapRename(u)

SpecRun == InitRun /\ [][NextRun]_vars

\* the lock of tokio is granted in the order of the requests, and a call that
\* holds it goes on; nothing makes an update go on
NextRunFair == NextRun \/ BinRemoved

SpecRunFair ==
    /\ InitRun /\ [][NextRunFair]_vars
    /\ \A c \in FC : SF_vars(FarmerLock(c))
    /\ WF_vars(\E c \in FC : RunStep(c))

\* farmer starts next to calls of update_farmer on a host that has the binary
InitSwap == InitRun /\ live = Bin(<<V130>>)

\* the result goes to the caller of update_farmer, not to a start that awaits it
UpdReturnToCaller(u) ==
    /\ \A c \in FC : run[c].u # u
    /\ UpdReturn(u)

NextSwap ==
    \/ \E c \in FC : FarmerCall(c, "start")
    \/ \E c \in FC : StartEnsure(c)
    \/ \E c \in FC : StartUpdated(c)
    \/ \E c \in FC : StartFarmer(c)
    \/ \E c \in FC : StartCreate(c)
    \/ \E c \in FC : StartSpawn(c)
    \/ \E c \in FC : FarmerReturn(c)
    \/ \E u \in U : UpdCall(u)
    \/ \E u \in U : UpdLock(u)
    \/ \E u \in U : UpdFetch(u)
    \/ \E u \in U : UpdDecide(u)
    \/ \E u \in U : UpdUrl(u)
    \/ \E u \in U : UpdDownload(u)
    \/ \E u \in U : UpdChmod(u)
    \/ \E u \in U : UpdVerify(u)
    \/ \E u \in U : UpdSwapRemove(u)
    \/ \E u \in U : UpdSwapRename(u)
    \/ \E u \in U : UpdSwapCopy(u)
    \/ \E u \in U : UpdReturnToCaller(u)

SpecSwap == InitSwap /\ [][NextSwap]_vars

\* start and stop of plugin "a" next to status queries for plugin "b"; the
\* status requests are served whenever the lock can be had, nothing makes a
\* backend call of "a" return
SideRows ==
    {[n \in Names |-> IF n = "a" THEN MkPlugin("a", t, V100, 1)
                      ELSE IF n = "b" THEN MkPlugin("b", "File", V100, 1)
                      ELSE NoRow] : t \in {"Docker", "File"}}

InitSide == InitPM(SideRows) /\ CatQuiet /\ FarmQuiet /\ RelayQuiet /\ RunQuiet

\* rw_lock.read().await of plugin_status
StatusAcquire(r) == req[r].op = "status" /\ Acquire(r)

NextSide ==
    \/ \E r \in R, op \in {"start", "stop"} : Call(r, op, "a")
    \/ \E r \in R : Call(r, "status", "b")
    \/ \E r \in R : Acquire(r)
    \/ \E r \in R : Return(r)
    \/ \E r \in R : StartBody(r)
    \/ \E r \in R : StartFileFetch(r)
    \/ \E r \in R : StartDockerPull(r)
    \/ \E r \in R : StartDockerList(r)
    \/ \E r \in R : StartDockerStop(r)
    \/ \E r \in R : StartDockerRemove(r)
    \/ \E r \in R : StartDockerCreate(r)
    \/ \E r \in R : StartDockerStart(r)
    \/ \E r \in R : StopBody(r)
    \/ \E r \in R : StopDockerStop(r)
    \/ \E r \in R : StopDockerRemove(r)
    \/ \E r \in R : StatusBody(r)
    \/ MakeDir("a")

SpecSide ==
    /\ InitSide /\ [][NextSide]_vars
    /\ \A r \in R : SF_vars(StatusAcquire(r)) /\ WF_vars(StatusBody(r))

\* refreshes and catalog reads
InitCatalog ==
    /\ InitPM(NoRows)
    /\ available_plugins \in StoreDocs
    /\ updatesOut = NoOut
    /\ FarmQuiet
    /\ RelayQuiet
    /\ RunQuiet

NextCatalog ==
    \E r \in R :
        \/ CallCatalog(r, "refresh")
        \/ CallCatalog(r, "available")
        \/ Acquire(r)
        \/ RefreshFetch(r)
        \/ RefreshStore(r)
        \/ RefreshRead(r)
        \/ AvailFirst(r)
        \/ AvailRest(r)
        \/ Return(r)

SpecCatalog == InitCatalog /\ [][NextCatalog]_vars

InitRelay == InitPM(NoRows) /\ CatQuiet /\ FarmQuiet /\ RelayQuiet /\ RunQuiet

NextRelay ==
    \/ LogStreamCall
    \/ LogStreamConnect
    \/ RelayUpstream
    \/ RelayClient
    \/ RelayTerminated
    \/ RelaySleep
    \/ RelayReturn
    \/ ClientSend
    \/ UpstreamSend
    \/ ClientClose
    \/ UpstreamClose
    \/ ClientError
    \/ UpstreamError
    \/ Terminate

\* the runtime polls the relay's future, and select! picks among the arms
\* that are ready at random
SpecRelay ==
    /\ InitRelay /\ [][NextRelay]_vars
    /\ WF_vars(LogStreamConnect) /\ WF_vars(RelaySleep)
    /\ SF_vars(RelayUpstream) /\ SF_vars(RelayClient) /\ SF_vars(RelayTerminated)

(***************************************************************************)
(* Properties of PluginManager::start and PluginManager::stop.             *)
(***************************************************************************)
StartsDone == \A r \in R : req[r].pc = "done" /\ req[r].op = "start"
StartOks == {r \in R : req[r].pc = "done" /\ req[r].res = Res("true")}
StartDups == {r \in R : req[r].pc = "done" /\ req[r].res = Res("AlreadyExists")}

StartReturns(r) ==
    /\ req[r].op = "start"
    /\ req[r].pc \notin {"idle", "wait", "done"}
    /\ req'[r].pc = "done"

C3_StopVacant ==
    [][\A r \in R :
         (/\ req[r].pc = "body" /\ req[r].op = "stop"
          /\ plugin_runtimes[req[r].p.name] = NoRt
          /\ req'[r].pc # "body") =>
             /\ req'[r].pc = "done"
             /\ req'[r].res = Res("false")
             /\ plugins' = plugins
             /\ plugin_runtimes' = plugin_runtimes]_vars

\* a stop has returned false for a name that was stopped before
C3_Witness ==
    \E r \in R :
        /\ req[r].pc = "done" /\ req[r].op = "stop"
        /\ req[r].res = Res("false")
        /\ plugin_runtimes[req[r].p.name] = NoRt
        /\ files[req[r].p.name] = "exe"

(***************************************************************************)
(* Properties of the built-ins.                                            *)
(***************************************************************************)
\* C4: in every state reached by start, stop, add, update, remove and status
\* calls, status of a built-in reports running=true and
\* should_be_running=true.
C4_BuiltInStatus ==
    \A r \in R :
        (req[r].pc = "done" /\ req[r].op = "status" /\ req[r].p.name \in BuiltInKeys) =>
            req[r].res = StatusRes(TRUE, TRUE)

\* a start or stop of a built-in returns from the plugin manager in this step
BuiltInCall(r, op) ==
    /\ req[r].pc = "body" /\ req[r].op = op
    /\ req[r].p.name \in BuiltInKeys
    /\ req'[r].pc = "done"

\* C5: start of a built-in fails with AlreadyExists, stop of a built-in fails
\* with PermissionDenied, and neither changes the registry or the runtime
\* map.
C5_BuiltInRejects ==
    [][\A r \in R :
         /\ BuiltInCall(r, "start") =>
               /\ req'[r].res = Res("AlreadyExists")
               /\ plugins' = plugins /\ plugin_runtimes' = plugin_runtimes
         /\ BuiltInCall(r, "stop") =>
               /\ req'[r].res = Res("PermissionDenied")
               /\ plugins' = plugins /\ plugin_runtimes' = plugin_runtimes]_vars

(***************************************************************************)
(* Properties of FarmerManager::update_farmer.                             *)
(***************************************************************************)
\* the target the channel setting and the manifest call for
ClaimedTarget(setting, m) ==
    IF setting.present /\ setting.value \in {"beta", "Beta", "BETA"} /\ m.beta # NoStr
    THEN ParseVersion(m.beta)
    ELSE ParseVersion(m.current)

\* C6: update() takes manifest.current as the target on the Release channel
\* and with a missing or invalid setting, manifest.beta (else
\* manifest.current) on the Beta channel; with a readable installed version
\* it installs when that version is older than the target and skips when it
\* is not older.
C6_TargetAndInstall ==
    [][\A u \in U :
         (upd[u].pc = "decide" /\ upd'[u].pc # "decide") =>
             /\ upd'[u].install => upd'[u].target = ClaimedTarget(channel, manifest)
             /\ (live.exists /\ GetBinaryVersion(live).ok) =>
                    (upd'[u].install <=>
                        VersionLess(GetBinaryVersion(live), ClaimedTarget(channel, manifest)))]_vars

\* the architectures the build server has binaries for
KnownArchs == {"x86_64", "aarch64"}

Requested(u, what) == \E i \in 1..Len(upd[u].net) : upd[u].net[i] = what

\* C7 as stated: on a host of unknown architecture update() fails with
\* Unsupported and has made no network call, neither the manifest fetch nor
\* the download.
C7_UnsupportedNoNetwork ==
    \A u \in U :
        arch \notin KnownArchs =>
            /\ upd[u].net = <<>>
            /\ upd[u].pc = "done" => upd[u].res = "Unsupported"

\* C7 amended: on a host of unknown architecture update() never requests the
\* download; when it gets to install it fails with Unsupported, the manifest
\* fetch being the one network call made; and Unsupported is returned on no
\* other host.
C7_UnsupportedNoDownload ==
    \A u \in U :
        /\ arch \notin KnownArchs => ~Requested(u, "download")
        /\ (upd[u].pc = "done" /\ upd[u].install /\ arch \notin KnownArchs) =>
               (upd[u].res = "Unsupported" /\ upd[u].net = <<"manifest">>)
        /\ (upd[u].pc = "done" /\ upd[u].res = "Unsupported") => arch \notin KnownArchs

\* update_farmer has failed with Unsupported after the manifest fetch
C7_Witness ==
    \E u \in U :
        /\ upd[u].pc = "done" /\ upd[u].res = "Unsupported"
        /\ arch = "riscv64"
        /\ upd[u].net = <<"manifest">>

\* C8: when update() returns success, the binary at the live path reports
\* the target version of that update, whether it installed or skipped.
C8_LiveIsTarget ==
    [][\A u \in U :
         (upd[u].pc # "done" /\ upd'[u].pc = "done" /\ upd'[u].res = "ok") =>
             /\ GetBinaryVersion(live').ok
             /\ GetBinaryVersion(live') = ClaimedTarget(channel, manifest)]_vars

\* C9: when a step of update() fails, update() returns an error and the
\* binary installed before is still at the live path, unchanged; a step
\* that fails never lets update() return success.
C9_AllOrNothing ==
    [][\A u \in U :
         (upd[u].pc # "done" /\ upd'[u].pc = "done" /\ upd'[u].res # "ok") =>
             live' = upd[u].old]_vars

(***************************************************************************)
(* Properties of PluginManager::plugin_updates.                            *)
(***************************************************************************)
\* the entry the claim expects for the registered plugin k
ClaimedUpdate(k) ==
    [name |-> k, current_version |-> plugins[k].version,
     new_version |-> available_plugins[k]]

\* both strings are semantic versions and the catalog's is the greater
StrictlyNewer(k) ==
    /\ ParseVersion(plugins[k].version).ok
    /\ ParseVersion(available_plugins[k]).ok
    /\ VersionLess(ParseVersion(plugins[k].version), ParseVersion(available_plugins[k]))

\* C10: plugin_updates never returns an error; for every registered plugin
\* with a catalog entry it emits {name, current, new} exactly when both
\* version strings parse and the catalog version is strictly greater, and a
\* string that does not parse omits that plugin only.
C10_DiffUpdates ==
    [][(updatesOut = NoOut /\ updatesOut' # NoOut) =>
          /\ updatesOut'.tag = "ok"
          /\ \A k \in Names :
                (plugins[k] # NoRow /\ available_plugins[k] # NoEntry) =>
                    /\ ClaimedUpdate(k) \in updatesOut'.updates <=> StrictlyNewer(k)
                    /\ \A e \in updatesOut'.updates : e.name = k => e = ClaimedUpdate(k)
          /\ \A e \in updatesOut'.updates :
                plugins[e.name] # NoRow /\ available_plugins[e.name] # NoEntry]_vars

\* one plugin's update is reported next to a plugin whose version is no
\* semantic version
C10_Witness ==
    /\ updatesOut.tag = "ok"
    /\ \E e \in updatesOut.updates : e.name = "file_manager"
    /\ plugins["a"] # NoRow /\ available_plugins["a"] # NoEntry
    /\ ~ParseVersion(plugins["a"].version).ok
    /\ Cardinality(updatesOut.updates) = 1

(***************************************************************************)
(* Properties of FarmerManager::farmer_log_stream.                         *)
(***************************************************************************)
Relaying == relay.pc \in {"select", "sleep"}

\* a side has closed or reports an error, or the shutdown signal has fired
RelayOver ==
    \/ client_socket.state = "closed" \/ upstream_socket.state = "closed"
    \/ client_socket.fail \/ upstream_socket.fail
    \/ terminated

\* C11: a running relay ends, with both connections released, once either
\* side closes or reports an error or the shutdown signal fires; it does
\* not go on looping after a side has closed.
C11_RelayEnds ==
    (Relaying /\ RelayOver) ~>
        (/\ relay.pc \in {"done", "idle"}
         /\ client_socket.state \in {"dropped", "none"}
         /\ upstream_socket.state \in {"dropped", "none"})

(***************************************************************************)
(* Properties of the registry: add, update_plugin, uninstall.              *)
(***************************************************************************)
\* the request r returns from the method op of the plugin manager
Returns(r, op) ==
    /\ req[r].pc = "body" /\ req[r].op = op
    /\ req'[r].pc = "done"

\* C12: add with a name that is registered fails with Conflict and changes
\* neither the registry nor the rows; add with an unused name that succeeds
\* has written the row and registered the definition.
C12_AddConflict ==
    [][\A r \in R :
         Returns(r, "add") =>
             IF plugins[req[r].p.name] # NoRow
             THEN /\ req'[r].res.tag \in {"Conflict", "AlreadyExists"}
                  /\ db' = db /\ plugins' = plugins
             ELSE req'[r].res = Res("true") =>
                     /\ db'[req[r].p.name] = req[r].p
                     /\ plugins'[req[r].p.name] = req[r].p]_vars

\* C13: update with a name that is not in the registry fails with NotFound
\* and writes no row.
C13_UpdateUnknown ==
    [][\A r \in R :
         (Returns(r, "update") /\ plugins[req[r].p.name] = NoRow) =>
             /\ req'[r].res = Res("NotFound")
             /\ db' = db]_vars

\* C14: remove of a built-in fails with PermissionDenied and changes
\* nothing; remove of any other registered name, started or not, deletes
\* the row, the registry definition and the runtime entry.
C14_RemoveAll ==
    [][\A r \in R :
         Returns(r, "uninstall") =>
             IF req[r].p.name \in BuiltInKeys
             THEN /\ req'[r].res = Res("PermissionDenied")
                  /\ db' = db /\ plugins' = plugins /\ plugin_runtimes' = plugin_runtimes
             ELSE req'[r].res = Res("true") =>
                     /\ db'[req[r].p.name] = NoRow
                     /\ plugins'[req[r].p.name] = NoRow
                     /\ plugin_runtimes'[req[r].p.name] = NoRt]_vars

\* C15: in every state the registry holds the four built-ins, each of type
\* BuiltIn and enabled.
C15_BuiltInsStay ==
    \A k \in BuiltInKeys :
        /\ plugins[k] # NoRow
        /\ plugins[k].ptype = "BuiltIn"
        /\ plugins[k].enabled = 1


(***************************************************************************)
(* C16: a refresh that succeeds sets the catalog to exactly the fetched    *)
(* document in one step; a refresh that fails on the fetch or on the parse *)
(* returns an error and leaves the catalog as it was; nothing else changes *)
(* the catalog, no reader holds the guard when it changes, and the list a  *)
(* reader returns is the catalog of one moment.                            *)
(***************************************************************************)
Stored(r) == req[r].pc = "rf_store" /\ req'[r].pc = "rf_read"

RefreshFails(r) ==
    /\ req[r].op = "refresh" /\ req[r].pc \in {"body", "rf_store"}
    /\ req'[r].pc = "done"

C16_RefreshAtomic ==
    [][/\ \A r \in R : Stored(r) =>
            /\ available_plugins' = req[r].loc
            /\ req[r].loc \in StoreDocs
       /\ \A r \in R : RefreshFails(r) =>
            /\ req'[r].res = Res("Other")
            /\ available_plugins' = available_plugins
       /\ available_plugins' # available_plugins =>
            \E r \in R : Stored(r) /\ lock.w = r /\ lock.rd = {}
       /\ \A r \in R : (req[r].pc = "av_rest" /\ req'[r].pc = "done") =>
            /\ req'[r].loc = available_plugins
            /\ req'[r].loc \in StoreDocs]_vars

\* a refresh has stored a fetched document and its handler has returned the
\* new list
C16_Witness ==
    \E r \in R :
        /\ req[r].op = "refresh" /\ req[r].pc = "done" /\ req[r].res = Res("true")
        /\ req[r].loc = available_plugins
        /\ available_plugins["a"] = NoEntry
        /\ available_plugins["file_manager"] = V130

(***************************************************************************)
(* C17: whatever the interleaving of start, stop and status calls, at most *)
(* one farmer process runs and at most one handle exists; a start that     *)
(* finds a handle returns InvalidInput, spawns nothing and leaves the      *)
(* handle and the processes as they are.                                   *)
(***************************************************************************)
RunningKids == {k \in Kids : children[k] = "running"}
Handles == ({instance} \cup {run[c].h : c \in FC}) \ {0}

C17_OneChild ==
    [][/\ Cardinality(RunningKids') <= 1
       /\ Cardinality(Handles') <= 1
       /\ RunningKids' \subseteq Handles'
       /\ \A c \in FC :
            (/\ run[c].op = "start" /\ run[c].pc = "lock"
             /\ instance # 0 /\ run'[c] # run[c]) =>
                /\ run'[c].pc = "done" /\ run'[c].res = "InvalidInput"
                /\ instance' = instance
                /\ children' = children]_vars

\* a start has been refused while the child of an earlier start runs
C17_Witness ==
    \E c \in FC :
        /\ run[c].op = "start" /\ run[c].pc = "done" /\ run[c].res = "InvalidInput"
        /\ instance # 0 /\ children[instance] = "running"

(***************************************************************************)
(* C18: a stop that finds no handle returns Ok and changes nothing; a stop *)
(* that finds one has ended the process when it returns, and has deleted   *)
(* the config file when it returns Ok; whenever a stop returns, with Ok or *)
(* with the error of remove_file, no handle is held and the status is      *)
(* Stopped, so that a stop right after it is the stop that finds no handle.*)
(***************************************************************************)
StopReturns(c) == run[c].op = "stop" /\ run[c].pc # "done" /\ run'[c].pc = "done"

C18_StopIdempotent ==
    [][\A c \in FC :
        /\ (run[c].op = "stop" /\ run[c].pc = "lock" /\ instance = 0 /\ run'[c] # run[c]) =>
              /\ run'[c].pc = "done" /\ run'[c].res = "ok"
              /\ UNCHANGED <<instance, children, config_file>>
        /\ StopReturns(c) =>
              /\ instance' = 0
              /\ FarmerStatus' = {"Stopped"}
              /\ RunningKids' = {}
        /\ (StopReturns(c) /\ run[c].pc = "rm" /\ run'[c].res = "ok") => ~config_file']_vars

\* a stop has ended the running child, deleted the file and returned Ok
C18_Witness ==
    \E c \in FC :
        /\ run[c].op = "stop" /\ run[c].pc = "done" /\ run[c].res = "ok"
        /\ instance = 0 /\ ~config_file
        /\ \E k \in Kids : children[k] = "killed"

(***************************************************************************)
(* C19: a stop_farmer or farmer_status call that is under way while an     *)
(* update_farmer call holds install_mutex returns, even when the update    *)
(* never takes another step.                                               *)
(***************************************************************************)
C19_StopStatusGoOn ==
    \A c \in FC :
        (install_mutex # 0 /\ run[c].op \in {"stop", "status"} /\ run[c].pc \in {"lock", "kill", "rm"})
            ~> (run[c].pc = "done")

\* a stop has ended the child and returned while the update of a start is at
\* its download
C19_Witness ==
    \E c \in FC, d \in FC :
        /\ run[c].pc = "update" /\ install_mutex = run[c].u
        /\ upd[run[c].u].pc = "download"
        /\ run[d].op = "stop" /\ run[d].pc = "done" /\ run[d].res = "ok"
        /\ instance = 0
        /\ \E k \in Kids : children[k] = "killed"

(***************************************************************************)
(* C20: when a stop of a Docker or File plugin returns, with true, with    *)
(* false or with an error of the backend, the name has no runtime entry; a *)
(* status that finds no entry reports running = false, and a start is      *)
(* rejected with AlreadyExists only when it finds an entry.                *)
(***************************************************************************)
StopEnds(r) ==
    /\ req[r].op = "stop"
    /\ req[r].pc \in {"body", "s_stop", "s_remove"}
    /\ req'[r].pc = "done"

C20_StopClears ==
    [][\A r \in R :
        LET n == req[r].p.name IN
        /\ (StopEnds(r) /\ req[r].p.ptype \in {"Docker", "File"}) =>
              plugin_runtimes'[n] = NoRt
        /\ (Returns(r, "status") /\ plugin_runtimes[n] = NoRt) =>
              req'[r].res = StatusRes(FALSE, FALSE)
        /\ (StartReturns(r) /\ req'[r].res = Res("AlreadyExists")) =>
              (req[r].pc = "body" /\ plugin_runtimes[n] # NoRt)]_vars

\* the stop of a started container has returned the error of the backend:
\* the container still runs and the entry is gone
C20_Witness ==
    \E r \in R :
        LET n == req[r].p.name IN
        /\ req[r].op = "stop" /\ req[r].pc = "done" /\ req[r].res = Res("Other")
        /\ req[r].p.ptype = "Docker"
        /\ containers[n] = "running"
        /\ plugin_runtimes[n] = NoRt

(***************************************************************************)
(* C21: the stop of a started Docker plugin does not return before it has  *)
(* called remove_container: a return from the connect or from              *)
(* stop_container, which skips the remove, does not happen, and when the   *)
(* stop returns no container of the name is left without a runtime entry.  *)
(***************************************************************************)
C21_StopAttemptsBoth ==
    [][\A r \in R :
        LET n == req[r].p.name IN
        /\ (req[r].op = "stop" /\ req[r].pc = "s_stop") => req'[r].pc # "done"
        /\ (req[r].op = "stop" /\ req[r].pc = "s_remove" /\ req'[r].pc = "done"
              /\ req'[r].res = Res("true")) =>
              (containers'[n] = "none" /\ plugin_runtimes'[n] = NoRt)]_vars

(***************************************************************************)
(* C22: a start of a Docker plugin in which a step of the launch failed    *)
(* (the image pull, the list, the stop or the remove of an existing        *)
(* container, the create, the start) returns an error, and when a start of *)
(* a Docker plugin returns an error the name has no runtime entry.         *)
(***************************************************************************)
C22_FailedLaunch ==
    [][\A r \in R :
        LET n == req[r].p.name IN
        (StartReturns(r) /\ req[r].p.ptype = "Docker" /\ req[r].pc # "body") =>
            /\ (req[r].loc = PullFailed) => req'[r].res = Res("Other")
            /\ (req'[r].res # Res("true")) => plugin_runtimes'[n] = NoRt]_vars

(***************************************************************************)
(* C23: for a Docker plugin with a runtime entry, a status that the daemon *)
(* answers with no container of that name returns running = false, not an  *)
(* error; a status that finds a container returns running exactly when its *)
(* state is not "exited", and should_be_running is the stored flag.        *)
(***************************************************************************)
StatusReturns(r) ==
    /\ req[r].op = "status" /\ req[r].pc \in {"body", "st_list"}
    /\ req'[r].pc = "done"

C23_StatusDocker ==
    [][\A r \in R :
        LET n == req[r].p.name
            rt == plugin_runtimes[n] IN
        (StatusReturns(r) /\ rt.kind = "Docker") =>
            /\ (req'[r].loc = NoSuchContainer) => req'[r].res = StatusRes(FALSE, FALSE)
            /\ (req'[r].res.tag = "status" /\ containers[n] # "none") =>
                  req'[r].res = StatusRes(containers[n] # "exited", rt.run)
            /\ (req'[r].res.tag = "status" /\ containers[n] = "none") =>
                  req'[r].res = StatusRes(FALSE, FALSE)]_vars

(***************************************************************************)
(* C24: a start of a File plugin that finds neither the directory          *)
(* bin_folder/name nor the executable is not refused for the missing       *)
(* directory: it goes on to create it and to download, and a start whose   *)
(* download succeeds has written the executable, spawned the process,      *)
(* inserted the runtime entry and returns true.                            *)
(***************************************************************************)
C24_FileFirstStart ==
    [][\A r \in R :
        LET n == req[r].p.name IN
        /\ (/\ req[r].op = "start" /\ req[r].pc = "body" /\ req[r].p.ptype = "File"
            /\ plugin_runtimes[n] = NoRt /\ files[n] = "nodir"
            /\ req'[r] # req[r]) =>
               req'[r].pc = "f_fetch"
        /\ (req[r].pc = "f_fetch" /\ files'[n] = "exe") =>
               /\ req'[r].pc = "done" /\ req'[r].res = Res("true")
               /\ plugin_runtimes'[n] = FileEntry
               /\ procs'[n] = procs[n] + 1]_vars

(***************************************************************************)
(* C25: on a host with no binary at BIN_PATH, an update_farmer call whose  *)
(* manifest fetch, download and verification have succeeded is not failed  *)
(* by the swap for the missing binary: the swap goes on to copy the        *)
(* verified file to BIN_PATH.                                              *)
(***************************************************************************)
C25_FirstInstall ==
    [][\A u \in U :
        (upd[u].pc = "swap_mv" /\ ~live.exists /\ upd'[u] # upd[u]) =>
            upd'[u].pc = "swap_cp"]_vars

(***************************************************************************)
(* C26: while a start or a stop of plugin "a" is inside a backend call     *)
(* (image pull, list, stop, remove, create or start of the container,      *)
(* download of the executable), a status query for plugin "b" that has     *)
(* looked up its row is granted the lock, so that it can run to its end    *)
(* without waiting for the call on "a".                                    *)
(***************************************************************************)
BackendPcs == {"d_pull", "d_list", "d_stop", "d_remove", "d_create", "d_start",
               "f_fetch", "s_stop", "s_remove"}

C26_StatusNotBlocked ==
    \A r \in R :
        (/\ req[r].op = "status" /\ req[r].pc = "wait" /\ req[r].p.name = "b"
         /\ \E q \in R : req[q].p.name = "a" /\ req[q].pc \in BackendPcs)
            => ENABLED StatusAcquire(r)

(***************************************************************************)
(* C27: when the process of a started File plugin has ended by itself the  *)
(* runtime entry stays, with the flag set and the task finished; a status  *)
(* then returns running = false and should_be_running = true, a start      *)
(* returns AlreadyExists, and only a stop takes the entry away.            *)
(***************************************************************************)
Exited(n) == plugin_runtimes[n].kind = "File" /\ plugin_runtimes[n].task = "finished"

C27_ExitKeepsEntry ==
    [][/\ \A n \in UserNames :
            /\ (plugin_runtimes[n].kind = "File" /\ procs'[n] < procs[n]
                  /\ plugin_runtimes'[n] # NoRt) =>
                  (Exited(n)' /\ plugin_runtimes'[n].run)
            /\ (Exited(n) /\ plugin_runtimes'[n] # plugin_runtimes[n]) =>
                  /\ plugin_runtimes'[n] = NoRt
                  /\ \E r \in R : req[r].op = "stop" /\ req[r].pc = "body"
                                  /\ req[r].p.name = n /\ req'[r].pc = "done"
       /\ \A r \in R :
            LET n == req[r].p.name IN
            /\ (StatusReturns(r) /\ Exited(n)) => req'[r].res = StatusRes(FALSE, TRUE)
            /\ (StartReturns(r) /\ req[r].pc = "body" /\ Exited(n)) =>
                  req'[r].res = Res("AlreadyExists")]_vars

\* the process has ended by itself and a start of the name was refused
C27_Witness ==
    \E r \in R :
        /\ req[r].op = "start" /\ req[r].pc = "done" /\ req[r].res = Res("AlreadyExists")
        /\ plugin_runtimes[req[r].p.name].kind = "File"
        /\ plugin_runtimes[req[r].p.name].task = "finished"
        /\ procs[req[r].p.name] = 0

(***************************************************************************)
(* C28: after every add, update and remove that has returned, with success *)
(* or with a failure, the registry definitions of the names that are not   *)
(* built in equal the rows; an update that succeeded has replaced the      *)
(* registry definition; a failure leaves the registry as it was.           *)
(***************************************************************************)
RegistryReturns(r) ==
    Returns(r, "add") \/ Returns(r, "update") \/ Returns(r, "uninstall")

C28_RegistryIsRows ==
    [][\A r \in R :
         RegistryReturns(r) =>
             /\ \A n \in UserNames : plugins'[n] = db'[n]
             /\ (req[r].op = "update" /\ req'[r].res = Res("true")) =>
                    plugins'[req[r].p.name] = req[r].p
             /\ req'[r].res \notin {Res("true"), Res("false")} => plugins' = plugins]_vars

(***************************************************************************)
(* C29: a start returns InvalidInput exactly when its check of the handle  *)
(* finds one; the handle is set only by a start that returns Ok and        *)
(* cleared only by a stop, not by the end of the child nor by a status;    *)
(* once the child has ended by itself a status answers Exited (Unknown     *)
(* when try_wait fails) and keeps the handle, so that a start is refused   *)
(* until a stop; a start that fails leaves the handle as it was, and none  *)
(* when it failed after the check.                                         *)
(***************************************************************************)
FarmerStartReturns(c) ==
    run[c].op = "start" /\ run[c].pc # "done" /\ run'[c].pc = "done"

Swapping == \E u \in U : upd[u].pc = "swap_cp"

C30_NoSpawnInSwap ==
    [][\A c \in FC :
         (run[c].pc = "spawn" /\ run'[c].pc = "done") => ~Swapping]_vars

====
